---- MODULE Spec2Model ----
(***************************************************************************)
(* A model of driveHalo-py-jetson/root_logger.py: the LoggingManager (the  *)
(* channel registry, level control, the rate limiter and the module-level  *)
(* singleton) and the LogWindow overlay (a bounded deque and its renderer).*)
(***************************************************************************)
EXTENDS Integers, Sequences, FiniteSets, TLC

(***************************************************************************)
(* Bounds of the model.                                                    *)
(***************************************************************************)
MaxTime == 2

WinMaxTime == 1

MaxCalls == 3

MaxLines == 3

MaxRootLog == 2

TicksPerSecond == 2

(***************************************************************************)
(* Small helpers.                                                          *)
(***************************************************************************)
None == "None"

Min(a, b) == IF a <= b THEN a ELSE b

Max(a, b) == IF a >= b THEN a ELSE b

\* The last n elements of s, in order (all of s when it is shorter).
LastN(s, n) == SubSeq(s, Max(1, Len(s) - n + 1), Len(s))

(***************************************************************************)
(* LogWindow: state.                                                       *)
(***************************************************************************)
VARIABLES
  max_lines,      \* LogWindow.max_lines, the deque's maxlen
  window_h,       \* LogWindow.window_size[1], the canvas height in pixels
  log_lines,      \* LogWindow.log_lines, oldest first
  wclock,         \* the wall clock add_log reads (seconds)
  inserted,       \* history: the records appended since the deque was last empty
  wpc,            \* the position of the thread inside clear()
  rpc,            \* the position of the render thread inside render()
  visible_lines,  \* render's local visible_lines
  start_idx,      \* render's local start_idx
  stop_idx,       \* the upper end of render's range(), read once
  idx,            \* render's loop variable i
  y_pos,          \* render's local y_pos
  drawn,          \* the records drawn on the canvas of the current pass
  nCalls,         \* history: the add_log and clear calls made since construction
  passLen,        \* history: len(log_lines) when the pass read it first
  passClean,      \* history: no append or clear happened during the pass
  passBufs        \* history: the contents log_lines had during the pass

winVars == <<max_lines, window_h, log_lines, wclock, inserted, wpc, rpc,
             visible_lines, start_idx, stop_idx, idx, y_pos, drawn, nCalls,
             passLen, passClean, passBufs>>

renderLocals == <<visible_lines, start_idx, stop_idx, idx, y_pos, drawn>>

(***************************************************************************)
(* The logging library's process-wide state: one Logger object per name.   *)
(* A Logger object is identified by its name; "root" is the root logger.   *)
(***************************************************************************)
VARIABLES
  loggerDict,       \* the names whose Logger object exists
  loggerLevel,      \* Logger.level of each object (NOTSET when never set)
  loggerPropagate,  \* Logger.propagate of each object
  loggerHandlers    \* Logger.handlers of each object, in order of attachment

libVars == <<loggerDict, loggerLevel, loggerPropagate, loggerHandlers>>

(***************************************************************************)
(* LoggingManager: state of the manager the threads share.                 *)
(***************************************************************************)
VARIABLES
  default_level,    \* LoggingManager.default_level
  enable_console,   \* LoggingManager.enable_console
  enable_file,      \* LoggingManager.enable_file
  loggers,          \* LoggingManager.loggers: registered name -> Logger object
  special_loggers,  \* LoggingManager.special_loggers: category -> Logger or None
  lockOwner,        \* the thread holding LoggingManager.lock, or None
  lockCount,        \* the RLock's recursion count
  rate_limiters,    \* LoggingManager.rate_limiters: key -> last timestamp
  now               \* the clock time.time() reads, in ticks

mgrVars == <<default_level, enable_console, enable_file, loggers,
             special_loggers, lockOwner, lockCount, rate_limiters, now>>

cfgVars == <<default_level, enable_console, enable_file>>

(***************************************************************************)
(* The calling threads, and the history the claims are stated over.        *)
(***************************************************************************)
VARIABLES
  pc,        \* each thread's position: "idle", or a line of the method it is in
  args,      \* the arguments (and locals) of the call each thread is in
  ret,       \* the value the call is about to return
  created,   \* history: per name, how often a registry entry was stored
  returned,  \* history: per name, the handles get_logger has returned
  rootLog,   \* history: the records the root logger accepted, in order
  lastEmit,  \* history: per rate-limiter key, the time of the call that logged last
  raised     \* history: whether some call has ended by an exception

thrVars == <<pc, args, ret>>

histVars == <<created, returned, rootLog>>

rateHist == <<lastEmit, raised>>

(***************************************************************************)
(* The module's global and the managers constructed so far.                *)
(***************************************************************************)
VARIABLES
  _logging_manager,  \* the module global: a manager's number, or 0 for None
  managers,          \* the LoggingManager objects, in order of construction
  results            \* history: the managers the module functions returned or used

modVars == <<_logging_manager, managers, results>>

(***************************************************************************)
(* The sinks: each handler's lock, the records the handlers have written,  *)
(* the emission each thread is in, and the files of the rotating sinks.    *)
(***************************************************************************)
VARIABLES
  sinkLock,     \* Handler.lock of each handler: the thread holding it, or None
  written,      \* history: the (handler, channel, level) records written
  frame,        \* per thread: the Logger.log call it is in, or NoFrame
  maxBytes,     \* RotatingFileHandler.maxBytes
  backupCount,  \* RotatingFileHandler.backupCount
  fileSize,     \* per rotating file: the bytes in the active file
  backups       \* per rotating file: the sizes of <name>.log.1, .2, ...

ioVars == <<sinkLock, written, frame>>

fileVars == <<maxBytes, backupCount, fileSize, backups>>

extVars == <<ioVars, fileVars>>

vars == <<winVars, libVars, mgrVars, thrVars, histVars, rateHist, modVars, extVars>>

(***************************************************************************)
(* LogWindow: constants of the code and the inputs of the model.           *)
(***************************************************************************)
line_height == 20

first_y == 20

bottom_margin == 10

Heights == {30, 40, 55}

Categories == {"sync"}

Messages == {"m1", "m2"}

WelcomeMessages ==
  << "Log window initialized",
     "Press keys 1-5 to toggle diagnostic categories",
     "Press 'f' to force a full diagnostic log",
     "window can be resized by dragging" >>

\* A deque that never evicts.
DequeAppendNoEvict(d, maxlen, x) == Append(d, x)

\* collections.deque(maxlen=n).append(x): a full deque drops its oldest
\* element; a deque of maxlen 0 stays empty.
DequeAppend(d, maxlen, x) ==
  IF maxlen = 0 THEN << >>
  ELSE IF Len(d) >= maxlen THEN Append(Tail(d), x)
  ELSE Append(d, x)

\* The tuple add_log stores.
LogRecord(ts, category, message) == <<ts, category, message>>

RECURSIVE AppendAll(_, _, _)
AppendAll(d, maxlen, xs) ==
  IF xs = << >> THEN d
  ELSE AppendAll(DequeAppend(d, maxlen, Head(xs)), maxlen, Tail(xs))

WelcomeRecords == [k \in 1..Len(WelcomeMessages) |->
                     LogRecord(0, "system", WelcomeMessages[k])]

\* LogWindow.__init__: an empty deque, then four add_log calls.
WinInit ==
  /\ max_lines \in 0..MaxLines
  /\ window_h \in Heights
  /\ log_lines = AppendAll(<< >>, max_lines, WelcomeRecords)
  /\ wclock = 0
  /\ inserted = WelcomeRecords
  /\ wpc = "idle"
  /\ rpc = "idle"
  /\ visible_lines = 0
  /\ start_idx = 0
  /\ stop_idx = 0
  /\ idx = 0
  /\ y_pos = 0
  /\ drawn = << >>
  /\ nCalls = 0
  /\ passLen = 0
  /\ passClean = TRUE
  /\ passBufs = {}

(***************************************************************************)
(* LogWindow: operations.                                                  *)
(***************************************************************************)
\* Whether the render thread is inside a pass.
InPass == rpc \notin {"idle", "shown"}

\* add_log(category, message), called by any producer thread: reads the
\* clock, appends the tuple.
AddLogEffect(ts, category, message) ==
  /\ wclock' = ts
  /\ log_lines' = DequeAppend(log_lines, max_lines, LogRecord(ts, category, message))
  /\ inserted' = Append(inserted, LogRecord(ts, category, message))
  /\ passClean' = FALSE
  /\ passBufs' = IF InPass THEN passBufs \cup {log_lines'} ELSE passBufs

add_log ==
  /\ nCalls < MaxCalls
  /\ nCalls' = nCalls + 1
  /\ \E ts \in wclock..WinMaxTime, c \in Categories, m \in Messages :
       AddLogEffect(ts, c, m)
  /\ UNCHANGED <<libVars, mgrVars, thrVars, histVars, rateHist, modVars, extVars, max_lines, window_h, wpc, rpc, renderLocals, passLen>>

\* A clear() that leaves the deque as it is.
clear_433_keeps ==
  /\ wpc = "idle"
  /\ nCalls < MaxCalls
  /\ nCalls' = nCalls + 1
  /\ wpc' = "c434"
  /\ inserted' = << >>
  /\ UNCHANGED <<libVars, mgrVars, thrVars, histVars, rateHist, modVars, extVars, max_lines, window_h, log_lines, wclock, rpc,
                 renderLocals, passLen, passClean, passBufs>>

\* clear(), line 433: self.log_lines.clear().
clear_433 ==
  /\ wpc = "idle"
  /\ nCalls < MaxCalls
  /\ nCalls' = nCalls + 1
  /\ wpc' = "c434"
  /\ log_lines' = << >>
  /\ inserted' = << >>
  /\ passClean' = FALSE
  /\ passBufs' = IF InPass THEN passBufs \cup {<< >>} ELSE passBufs
  /\ UNCHANGED <<libVars, mgrVars, thrVars, histVars, rateHist, modVars, extVars, max_lines, window_h, wclock, rpc, renderLocals, passLen>>

\* clear(), line 434: self.add_log("system", "Log cleared").
clear_434 ==
  /\ wpc = "c434"
  /\ wpc' = "idle"
  /\ \E ts \in wclock..WinMaxTime : AddLogEffect(ts, "system", "Log cleared")
  /\ UNCHANGED <<libVars, mgrVars, thrVars, histVars, rateHist, modVars, extVars, max_lines, window_h, rpc, renderLocals, nCalls, passLen>>

\* render(), line 400: visible_lines = min(height // line_height, len).
render_400 ==
  /\ rpc \in {"idle", "shown"}
  /\ rpc' = "r401"
  /\ visible_lines' = Min(window_h \div line_height, Len(log_lines))
  /\ drawn' = << >>
  /\ passLen' = Len(log_lines)
  /\ passClean' = TRUE
  /\ passBufs' = {log_lines}
  /\ UNCHANGED <<libVars, mgrVars, thrVars, histVars, rateHist, modVars, extVars, max_lines, window_h, log_lines, wclock, inserted, wpc,
                 start_idx, stop_idx, idx, y_pos, nCalls>>

\* render(), line 401: start_idx = max(0, len - visible_lines).
render_401 ==
  /\ rpc = "r401"
  /\ rpc' = "r405"
  /\ start_idx' = Max(0, Len(log_lines) - visible_lines)
  /\ UNCHANGED <<libVars, mgrVars, thrVars, histVars, rateHist, modVars, extVars, max_lines, window_h, log_lines, wclock, inserted, wpc,
                 visible_lines, stop_idx, idx, y_pos, drawn, nCalls,
                 passLen, passClean, passBufs>>

\* render(), lines 404-405: y_pos = 20; range(start_idx, len) is built once.
render_405 ==
  /\ rpc = "r405"
  /\ rpc' = "r406"
  /\ y_pos' = first_y
  /\ idx' = start_idx
  /\ stop_idx' = Len(log_lines)
  /\ UNCHANGED <<libVars, mgrVars, thrVars, histVars, rateHist, modVars, extVars, max_lines, window_h, log_lines, wclock, inserted, wpc,
                 visible_lines, start_idx, drawn, nCalls, passLen, passClean, passBufs>>

\* Whether the loop leaves after drawing a line that moved y_pos to y
\* (lines 419-420).
StopsAt(y) == y >= window_h - bottom_margin

\* render(), lines 405-420: one turn of the loop. The range is exhausted, or
\* log_lines[i] raises IndexError (caught at line 424, nothing is shown), or
\* the line is drawn and the bottom check may break out.
render_406 ==
  /\ rpc = "r406"
  /\ IF idx >= stop_idx
       THEN /\ rpc' = "r423"
            /\ UNCHANGED <<libVars, mgrVars, thrVars, histVars, rateHist, modVars, extVars, idx, y_pos, drawn>>
       ELSE IF idx >= Len(log_lines)
         THEN /\ rpc' = "idle"
              /\ UNCHANGED <<libVars, mgrVars, thrVars, histVars, rateHist, modVars, extVars, idx, y_pos, drawn>>
         ELSE /\ drawn' = Append(drawn, log_lines[idx + 1])
              /\ y_pos' = y_pos + line_height
              /\ idx' = idx + 1
              /\ rpc' = IF StopsAt(y_pos + line_height) THEN "r423" ELSE "r406"
  /\ UNCHANGED <<libVars, mgrVars, thrVars, histVars, rateHist, modVars, extVars, max_lines, window_h, log_lines, wclock, inserted, wpc,
                 visible_lines, start_idx, stop_idx, nCalls, passLen, passClean, passBufs>>

\* render(), line 423: cv2.imshow presents the canvas.
render_423 ==
  /\ rpc = "r423"
  /\ rpc' = "shown"
  /\ UNCHANGED <<libVars, mgrVars, thrVars, histVars, rateHist, modVars, extVars, max_lines, window_h, log_lines, wclock, inserted, wpc,
                 renderLocals, nCalls, passLen, passClean, passBufs>>

WinNext ==
  \/ add_log
  \/ clear_433
  \/ clear_434
  \/ render_400
  \/ render_401
  \/ render_405
  \/ render_406
  \/ render_423


(***************************************************************************)
(* LoggingManager: levels, names and the inputs of the model.              *)
(***************************************************************************)
NOTSET == 0

DEBUG == 10

INFO == 20

WARNING == 30

ERROR == 40

CRITICAL == 50

LOG_LEVELS == {DEBUG, INFO, WARNING, ERROR, CRITICAL}

Threads == {"t1", "t2"}

\* The keys of LoggingManager.special_loggers.
Specials == {"diagnostic", "sensor", "sync", "control", "performance"}

\* Every name of the model: the root, the special channels, a module channel
\* created on first use, and a name nobody ever registers.
Names == {"root"} \cup Specials \cup {"mod", "doesNotExist"}

\* Inputs: the names passed to get_logger, the levels and name lists passed
\* to set_level, the categories passed to toggle_special_logger and the
\* default levels a manager is constructed with.
GetNames == {"sync", "mod"}

LevelArgs == {DEBUG, ERROR}

NameLists == {{"doesNotExist"}, {"sync", "mod"}}

ToggleCategories == {"sync", "bogus"}

\* (default_level, enable_console, enable_file) of the constructed manager.
Configs == {<<INFO, TRUE, TRUE>>, <<WARNING, FALSE, TRUE>>, <<INFO, TRUE, FALSE>>}

NoArgs == [op |-> "none"]

ConsoleHandler == <<"console", "stdout">>

FileHandler(name) == <<"file", name>>

\* logging.lastResort, the handler of a record that finds no handler at all.
LastResort == <<"lastResort", "stderr">>

\* The log files: main.log and one file per special channel.
LogFiles == {"main"} \cup Specials

\* Every handler object of the model.
Sinks == {ConsoleHandler, LastResort} \cup {FileHandler(f) : f \in LogFiles}

NoFrame == [op |-> "none"]

\* No record was written yet and no emission is under way.
IoInit ==
  /\ sinkLock = [h \in Sinks |-> None]
  /\ written = {}
  /\ frame = [t \in Threads |-> NoFrame]

\* The defaults of max_file_size_mb and backup_count.
DefaultMaxFileSizeMb == 10

DefaultBackupCount == 5

\* Lines 119 and 139: maxBytes = self.max_file_size_mb * 1024 * 1024.
MaxBytesOf(max_file_size_mb) == max_file_size_mb * 1024 * 1024

\* The files of a manager with the default sizes; the bytes on disk are
\* followed in SpecSink only.
SinkFixed ==
  /\ maxBytes = MaxBytesOf(DefaultMaxFileSizeMb)
  /\ backupCount = DefaultBackupCount
  /\ fileSize = [f \in LogFiles |-> 0]
  /\ backups = [f \in LogFiles |-> << >>]

(***************************************************************************)
(* The logging library.                                                    *)
(***************************************************************************)
\* A fresh process: only the root logger exists, at WARNING, without handlers.
FreshLevel == [n \in Names |-> IF n = "root" THEN WARNING ELSE NOTSET]

FreshHandlers == [n \in Names |-> << >>]

\* Logger.getEffectiveLevel under the levels lv: the first level set on the
\* way up to the root (every name of the model is a child of the root).
EffectiveLevelIn(lv, obj) ==
  IF lv[obj] # NOTSET THEN lv[obj]
  ELSE IF obj = "root" THEN NOTSET
  ELSE lv["root"]

EffectiveLevel(obj) == EffectiveLevelIn(loggerLevel, obj)

\* Logger.isEnabledFor(level).
IsEnabledFor(obj, level) == level >= EffectiveLevel(obj)

(***************************************************************************)
(* LoggingManager.__init__.                                                *)
(***************************************************************************)
\* _configure_root_logger: the handlers the root logger is left with.
RootHandlers(console, file) ==
  (IF console THEN <<ConsoleHandler>> ELSE << >>)
    \o (IF file THEN <<FileHandler("main")>> ELSE << >>)

\* _configure_root_logger, on the library's levels and handlers.
LevelAfterConfigureRoot(lv, dl) == [lv EXCEPT !["root"] = dl]

HandlersAfterConfigureRoot(h, console, file) ==
  [h EXCEPT !["root"] = RootHandlers(console, file)]

\* Special channels that go on propagating.
PropagateAfterSpecialsKept(p) == p

\* _initialize_special_loggers, on the library's handlers and propagate
\* flags: each category's Logger gets one more RotatingFileHandler when files
\* are enabled, and get_logger switched its propagation off.
HandlersAfterSpecials(h, file) ==
  [n \in Names |-> IF n \in Specials /\ file
                     THEN Append(h[n], FileHandler(n))
                     ELSE h[n]]

PropagateAfterSpecials(p) == [n \in Names |-> IF n \in Specials THEN FALSE ELSE p[n]]

\* The state a manager constructed in a fresh process is in.
MgrInit ==
  /\ \E cfg \in Configs :
       /\ default_level = cfg[1]
       /\ enable_console = cfg[2]
       /\ enable_file = cfg[3]
  /\ loggerDict = {"root"} \cup Specials
  /\ loggerLevel = LevelAfterConfigureRoot(FreshLevel, default_level)
  /\ loggerPropagate = PropagateAfterSpecials([n \in Names |-> TRUE])
  /\ loggerHandlers =
       HandlersAfterSpecials(
         HandlersAfterConfigureRoot(FreshHandlers, enable_console, enable_file),
         enable_file)
  /\ loggers = [n \in {"root"} \cup Specials |-> n]
  /\ special_loggers = [c \in Specials |-> c]
  /\ lockOwner = None
  /\ lockCount = 0
  /\ rate_limiters = [k \in {} |-> 0]
  /\ now = 0
  /\ pc = [t \in Threads |-> "idle"]
  /\ args = [t \in Threads |-> NoArgs]
  /\ ret = [t \in Threads |-> None]
  /\ created = [n \in Names |-> IF n \in {"root"} \cup Specials THEN 1 ELSE 0]
  /\ returned = [n \in Names |-> IF n \in Specials THEN {n} ELSE {}]
  /\ rootLog = << >>
  /\ lastEmit = [k \in {} |-> 0]
  /\ raised = FALSE
  /\ _logging_manager = 0
  /\ managers = << >>
  /\ results = {}
  /\ IoInit

(***************************************************************************)
(* LoggingManager.lock, a threading.RLock.                                 *)
(***************************************************************************)
\* A lock that excludes nobody.
LockAlwaysAvailable(t) == TRUE

\* Whether thread t may enter "with self.lock": the lock is free, or t holds it.
LockAvailable(t) == lockOwner \in {None, t}

Acquire(t) ==
  /\ LockAvailable(t)
  /\ lockOwner' = t
  /\ lockCount' = lockCount + 1

\* A with block that leaves the lock with its owner.
ReleaseKeepsOwner(t) ==
  /\ lockCount' = lockCount - 1
  /\ lockOwner' = lockOwner

\* Leaving the with block, normally or by an exception.
Release(t) ==
  /\ lockCount' = lockCount - 1
  /\ lockOwner' = IF lockCount = 1 THEN None ELSE lockOwner

Goto(t, label) == pc' = [pc EXCEPT ![t] = label]

SetArgs(t, a) == args' = [args EXCEPT ![t] = a]

SetRet(t, v) == ret' = [ret EXCEPT ![t] = v]

(***************************************************************************)
(* LoggingManager.get_logger.                                              *)
(***************************************************************************)
\* Line 170, self.loggers[name] = logger: the registry with the entry for
\* name, whose Logger object logging.getLogger(name) (line 163) returned.
RegistryWith(registry, name) ==
  [n \in DOMAIN registry \cup {name} |-> IF n = name THEN name ELSE registry[n]]

\* A get_logger that stops every new channel's propagation.
PropagateAfterGetAlwaysOff(p, name, specials) == [p EXCEPT ![name] = FALSE]

\* Lines 166-167: a name among the special categories stops propagating.
PropagateAfterGet(p, name, specials) ==
  IF name \in specials THEN [p EXCEPT ![name] = FALSE] ELSE p

get_logger_call(t) ==
  /\ pc[t] = "idle"
  /\ \E n \in GetNames : SetArgs(t, [op |-> "get_logger", name |-> n])
  /\ Goto(t, "gl_158")
  /\ UNCHANGED <<winVars, extVars, modVars, rateHist, libVars, mgrVars, ret, histVars>>

\* Line 158: with self.lock.
gl_158(t) ==
  /\ pc[t] = "gl_158"
  /\ Acquire(t)
  /\ Goto(t, "gl_159")
  /\ UNCHANGED <<winVars, extVars, modVars, rateHist, libVars, cfgVars, loggers, special_loggers, rate_limiters, now,
                 args, ret, histVars>>

\* Lines 159-160: a registered name returns its entry.
gl_159(t) ==
  /\ pc[t] = "gl_159"
  /\ IF args[t].name \in DOMAIN loggers
       THEN /\ SetRet(t, loggers[args[t].name])
            /\ Goto(t, "gl_exit")
       ELSE /\ Goto(t, "gl_163")
            /\ UNCHANGED ret
  /\ UNCHANGED <<winVars, extVars, modVars, rateHist, libVars, mgrVars, args, histVars>>

\* Lines 163-171: logging.getLogger(name) finds or makes the Logger object, a
\* special name stops propagating, the entry is stored.
gl_163(t) ==
  LET name == args[t].name IN
  /\ pc[t] = "gl_163"
  /\ loggerDict' = loggerDict \cup {name}
  /\ loggerPropagate' = PropagateAfterGet(loggerPropagate, name,
                                          DOMAIN special_loggers)
  /\ loggers' = RegistryWith(loggers, name)
  /\ created' = [created EXCEPT ![name] = @ + 1]
  /\ SetRet(t, name)
  /\ Goto(t, "gl_exit")
  /\ UNCHANGED <<winVars, extVars, modVars, rateHist, loggerLevel, loggerHandlers, cfgVars, special_loggers,
                 lockOwner, lockCount, rate_limiters, now, args, returned, rootLog>>

\* Leaving the with block: the lock is released and the handle returned.
gl_exit(t) ==
  /\ pc[t] = "gl_exit"
  /\ Release(t)
  /\ returned' = [returned EXCEPT ![args[t].name] = @ \cup {ret[t]}]
  /\ SetRet(t, None)
  /\ SetArgs(t, NoArgs)
  /\ Goto(t, "idle")
  /\ UNCHANGED <<winVars, extVars, modVars, rateHist, libVars, cfgVars, loggers, special_loggers, rate_limiters, now,
                 created, rootLog>>

(***************************************************************************)
(* LoggingManager.set_level.                                               *)
(***************************************************************************)
\* set_level that applies a name list to every registered channel.
SetLevelTargetsIgnoringNames(all, names, registered) == registered

\* set_level that leaves the root out when no names are given.
SetLevelTargetsWithoutRoot(all, names, registered) ==
  IF all THEN registered \ {"root"} ELSE names \cap registered

\* Lines 182-190: the registered names whose Logger gets the level: every
\* one when loggers is None (all), else the listed names that are registered.
SetLevelTargets(all, names, registered) ==
  IF all THEN registered ELSE names \cap registered

set_level_call(t) ==
  /\ pc[t] = "idle"
  /\ \E level \in LevelArgs :
       \/ SetArgs(t, [op |-> "set_level", level |-> level, all |-> TRUE, names |-> {}])
       \/ \E names \in NameLists :
            SetArgs(t, [op |-> "set_level", level |-> level, all |-> FALSE,
                        names |-> names])
  /\ Goto(t, "sl_181")
  /\ UNCHANGED <<winVars, extVars, modVars, rateHist, libVars, mgrVars, ret, histVars>>

\* Line 181: with self.lock.
sl_181(t) ==
  /\ pc[t] = "sl_181"
  /\ Acquire(t)
  /\ Goto(t, "sl_182")
  /\ UNCHANGED <<winVars, extVars, modVars, rateHist, libVars, cfgVars, loggers, special_loggers, rate_limiters, now,
                 args, ret, histVars>>

\* Lines 182-190: setLevel on each target's Logger object.
sl_182(t) ==
  LET objs == {loggers[n] : n \in SetLevelTargets(args[t].all, args[t].names,
                                                  DOMAIN loggers)} IN
  /\ pc[t] = "sl_182"
  /\ loggerLevel' = [o \in Names |-> IF o \in objs THEN args[t].level
                                     ELSE loggerLevel[o]]
  /\ Goto(t, "sl_exit")
  /\ UNCHANGED <<winVars, extVars, modVars, rateHist, loggerDict, loggerPropagate, loggerHandlers, mgrVars, args, ret,
                 histVars>>

sl_exit(t) ==
  /\ pc[t] = "sl_exit"
  /\ Release(t)
  /\ SetArgs(t, NoArgs)
  /\ Goto(t, "idle")
  /\ UNCHANGED <<winVars, extVars, modVars, rateHist, libVars, cfgVars, loggers, special_loggers, rate_limiters, now,
                 ret, histVars>>

(***************************************************************************)
(* Logger.log, as the manager's lines 225, 247 and 253 and the callers of  *)
(* a channel handle use it: the level test, then every handler of the      *)
(* channel and, while the channels propagate, of its parent, each under    *)
(* the handler's own lock.                                                 *)
(***************************************************************************)
\* Logger.callHandlers: the handlers a record of the channel is handed to.
HandlerChain(lg) ==
  loggerHandlers[lg] \o
    (IF lg # "root" /\ loggerPropagate[lg] THEN loggerHandlers["root"] ELSE << >>)

\* The sinks of a record that passed the level test: the chain's handlers,
\* or logging.lastResort (at WARNING) when the chain has none.
SinksFor(lg, level) ==
  IF HandlerChain(lg) # << >> THEN HandlerChain(lg)
  ELSE IF level >= WARNING THEN <<LastResort>>
  ELSE << >>

\* A level test that lets every record through.
PassesLevelAlways(lg, level) == TRUE

\* Logger.log(level, msg): "if self.isEnabledFor(level)".
PassesLevel(lg, level) == IsEnabledFor(lg, level)

\* Thread t calls lg.log(level, msg) and goes on at the label after once
\* the record is handled: a record below the channel's effective level is
\* dropped, another is handed to its sinks one by one.
LogCall(t, lg, level, after) ==
  IF PassesLevel(lg, level) /\ SinksFor(lg, level) # << >>
    THEN /\ frame' = [frame EXCEPT ![t] =
                        [op |-> "log", logger |-> lg, level |-> level,
                         todo |-> SinksFor(lg, level), after |-> after]]
         /\ Goto(t, "em_acquire")
    ELSE /\ frame' = frame
         /\ Goto(t, after)

\* Handler.handle: self.acquire().
em_acquire(t) ==
  LET h == Head(frame[t].todo) IN
  /\ pc[t] = "em_acquire"
  /\ sinkLock[h] = None
  /\ sinkLock' = [sinkLock EXCEPT ![h] = t]
  /\ Goto(t, "em_write")
  /\ UNCHANGED <<winVars, modVars, libVars, mgrVars, args, ret, histVars, rateHist,
                 written, frame, fileVars>>

\* Handler.handle: self.emit(record), then self.release(); the next handler
\* follows, or the log call returns.
em_write(t) ==
  LET h == Head(frame[t].todo)
      rest == Tail(frame[t].todo) IN
  /\ pc[t] = "em_write"
  /\ written' = written \cup {<<h, frame[t].logger, frame[t].level>>}
  /\ sinkLock' = [sinkLock EXCEPT ![h] = None]
  /\ IF rest = << >>
       THEN /\ frame' = [frame EXCEPT ![t] = NoFrame]
            /\ Goto(t, frame[t].after)
       ELSE /\ frame' = [frame EXCEPT ![t].todo = rest]
            /\ Goto(t, "em_acquire")
  /\ UNCHANGED <<winVars, modVars, libVars, mgrVars, args, ret, histVars, rateHist,
                 fileVars>>

(***************************************************************************)
(* LoggingManager.toggle_special_logger (it takes no lock).                *)
(***************************************************************************)
\* A toggle with the two levels exchanged.
ToggleLevelSwapped(enable) == IF enable THEN CRITICAL ELSE DEBUG

\* Line 221.
ToggleLevel(enable) == IF enable THEN DEBUG ELSE CRITICAL

\* The record line 225 hands to the root logger.
ToggleRecord(category, enable) ==
  [level |-> INFO,
   msg |-> <<IF enable THEN "Enabled" ELSE "Disabled", category, "logging">>]

\* Lines 220-222: an unknown (or unset) category returns at once; a special
\* category's Logger is set to DEBUG or CRITICAL.
ts_220(t) ==
  /\ pc[t] = "idle"
  /\ Len(rootLog) < MaxRootLog
  /\ \E category \in ToggleCategories, enable \in BOOLEAN :
       IF category \in DOMAIN special_loggers /\ special_loggers[category] # None
         THEN /\ loggerLevel' = [loggerLevel EXCEPT ![special_loggers[category]] =
                                   ToggleLevel(enable)]
              /\ SetArgs(t, [op |-> "toggle", category |-> category,
                             enable |-> enable])
              /\ Goto(t, "ts_225")
         ELSE UNCHANGED <<winVars, extVars, modVars, rateHist, loggerLevel, args, pc>>
  /\ UNCHANGED <<winVars, extVars, modVars, rateHist, loggerDict, loggerPropagate, loggerHandlers, mgrVars, ret, histVars>>

\* Line 225, Logger.info: the root logger accepts the record when it is
\* enabled for INFO.
RootAccepts(level) == IsEnabledFor(loggers["root"], level)

\* Line 225: self.loggers['root'].info(...).
ts_225(t) ==
  /\ pc[t] = "ts_225"
  /\ rootLog' = IF RootAccepts(INFO)
                  THEN Append(rootLog, ToggleRecord(args[t].category, args[t].enable))
                  ELSE rootLog
  /\ SetArgs(t, NoArgs)
  /\ LogCall(t, loggers["root"], INFO, "idle")
  /\ UNCHANGED <<winVars, modVars, rateHist, libVars, mgrVars, ret, created, returned,
                 sinkLock, written, fileVars>>

(***************************************************************************)
(* LoggingManager.flush_all (it takes no lock).                            *)
(***************************************************************************)
\* The order in which self.loggers holds its keys: the order of insertion,
\* the root first (line 126), the special categories in the order of
\* special_loggers (line 130), then the one name that is registered later.
InsertionOrder ==
  <<"root", "diagnostic", "sensor", "sync", "control", "performance", "mod">>

RECURSIVE RegistryOrderFrom(_, _)
RegistryOrderFrom(order, registry) ==
  IF order = << >> THEN << >>
  ELSE IF Head(order) \in DOMAIN registry
    THEN <<Head(order)>> \o RegistryOrderFrom(Tail(order), registry)
    ELSE RegistryOrderFrom(Tail(order), registry)

\* list(self.loggers): the registered names in the dict's order.
RegistryOrder(registry) == RegistryOrderFrom(InsertionOrder, registry)

\* Line 281: the iterator over self.loggers.values() is made; it remembers
\* the dict's size. (start and seen are history: the names registered at this
\* moment and the handlers flushed so far.)
flush_all_call(t) ==
  /\ pc[t] = "idle"
  /\ SetArgs(t, [op |-> "flush_all", used |-> Cardinality(DOMAIN loggers),
                 pos |-> 0, todo |-> << >>, start |-> DOMAIN loggers,
                 seen |-> {}])
  /\ Goto(t, "fa_281")
  /\ UNCHANGED <<winVars, extVars, modVars, libVars, mgrVars, ret, histVars, rateHist>>

\* Lines 281-282: the iterator's next value. A dict whose size differs from
\* the remembered one raises RuntimeError ("dictionary changed size during
\* iteration"), which leaves flush_all; at the end of the dict flush_all
\* returns; else the Logger's handlers are next.
fa_281(t) ==
  /\ pc[t] = "fa_281"
  /\ IF Cardinality(DOMAIN loggers) # args[t].used
       THEN /\ raised' = TRUE
            /\ SetArgs(t, NoArgs)
            /\ Goto(t, "idle")
       ELSE IF args[t].pos >= args[t].used
         THEN /\ SetArgs(t, NoArgs)
              /\ Goto(t, "idle")
              /\ UNCHANGED raised
         ELSE LET lg == loggers[RegistryOrder(loggers)[args[t].pos + 1]] IN
              /\ SetArgs(t, [args[t] EXCEPT !.pos = @ + 1,
                                            !.todo = loggerHandlers[lg]])
              /\ Goto(t, IF loggerHandlers[lg] = << >> THEN "fa_281" ELSE "fa_283")
              /\ UNCHANGED raised
  /\ UNCHANGED <<winVars, extVars, modVars, libVars, mgrVars, ret, histVars, lastEmit>>

\* Line 283, handler.flush(): self.acquire().
fa_283(t) ==
  LET h == Head(args[t].todo) IN
  /\ pc[t] = "fa_283"
  /\ sinkLock[h] = None
  /\ sinkLock' = [sinkLock EXCEPT ![h] = t]
  /\ Goto(t, "fa_flush")
  /\ UNCHANGED <<winVars, modVars, libVars, mgrVars, args, ret, histVars, rateHist,
                 written, frame, fileVars>>

\* Line 283, handler.flush(): the stream is flushed and the handler's lock
\* released; the Logger's next handler follows, or the next Logger.
fa_flush(t) ==
  LET h == Head(args[t].todo)
      rest == Tail(args[t].todo) IN
  /\ pc[t] = "fa_flush"
  /\ sinkLock' = [sinkLock EXCEPT ![h] = None]
  /\ SetArgs(t, [args[t] EXCEPT !.todo = rest, !.seen = @ \cup {h}])
  /\ Goto(t, IF rest = << >> THEN "fa_281" ELSE "fa_283")
  /\ UNCHANGED <<winVars, modVars, libVars, mgrVars, ret, histVars, rateHist,
                 written, frame, fileVars>>

(***************************************************************************)
(* The manager under concurrent callers.                                   *)
(***************************************************************************)
Next ==
  \E t \in Threads :
    \/ get_logger_call(t)
    \/ gl_158(t)
    \/ gl_159(t)
    \/ gl_163(t)
    \/ gl_exit(t)
    \/ set_level_call(t)
    \/ sl_181(t)
    \/ sl_182(t)
    \/ sl_exit(t)
    \/ ts_220(t)
    \/ ts_225(t)
    \/ em_acquire(t)
    \/ em_write(t)

\* A window that was constructed and is left alone.
WinFixed ==
  /\ max_lines = 1
  /\ window_h = 40
  /\ log_lines = AppendAll(<< >>, max_lines, WelcomeRecords)
  /\ wclock = 0
  /\ inserted = WelcomeRecords
  /\ wpc = "idle"
  /\ rpc = "idle"
  /\ visible_lines = 0
  /\ start_idx = 0
  /\ stop_idx = 0
  /\ idx = 0
  /\ y_pos = 0
  /\ drawn = << >>
  /\ nCalls = 0
  /\ passLen = 0
  /\ passClean = TRUE
  /\ passBufs = {}

\* A manager that was constructed and is left alone.
MgrFixed ==
  /\ MgrInit
  /\ default_level = INFO
  /\ enable_console
  /\ enable_file

Init == MgrInit /\ WinFixed /\ SinkFixed

Spec == Init /\ [][Next]_vars

InitWin == WinInit /\ MgrFixed /\ SinkFixed

SpecWin == InitWin /\ [][WinNext]_vars

(***************************************************************************)
(* LoggingManager.rate_limited_log.                                        *)
(***************************************************************************)
\* Inputs: the loggers, levels and limit_per_second values passed in.
RateLoggers == {"root", "sync"}

RateLevels == {INFO, CRITICAL}

Limits == {0, 1, 2}

\* Line 240: key = f"{logger.name}:{level}". The level is an integer, so the
\* text after the last colon is the level and the text before it the name: the
\* string determines the pair and the pair the string.
RateKey(name, level) == <<name, level>>

\* An interval test that wants strictly more than the interval.
IntervalElapsedStrictly(time_diff, limit) == time_diff * limit > TicksPerSecond

\* Line 252: time_diff >= 1.0 / limit_per_second, for a positive limit, with
\* times counted in ticks.
IntervalElapsed(time_diff, limit) == time_diff * limit >= TicksPerSecond

\* time.time() moves on.
Tick ==
  /\ now < MaxTime
  /\ now' = now + 1
  /\ UNCHANGED <<winVars, extVars, modVars, libVars, cfgVars, loggers, special_loggers, lockOwner,
                 lockCount, rate_limiters, thrVars, histVars, rateHist>>

rate_limited_log_call(t) ==
  /\ pc[t] = "idle"
  /\ \E name \in RateLoggers, level \in RateLevels, limit \in Limits :
       SetArgs(t, [op |-> "rate_limited_log", logger |-> name, level |-> level,
                   limit |-> limit, ct |-> 0, emit |-> FALSE])
  /\ Goto(t, "rl_238")
  /\ UNCHANGED <<winVars, extVars, modVars, libVars, mgrVars, ret, histVars, rateHist>>

\* Line 238: with self.lock.
rl_238(t) ==
  /\ pc[t] = "rl_238"
  /\ Acquire(t)
  /\ Goto(t, "rl_240")
  /\ UNCHANGED <<winVars, extVars, modVars, libVars, cfgVars, loggers, special_loggers,
                 rate_limiters, now, args, ret, histVars, rateHist>>

\* self.rate_limiters[key] = current_time (lines 246 and 254).
StoreTime(table, key, time) ==
  [k \in DOMAIN table \cup {key} |-> IF k = key THEN time ELSE table[k]]

\* A check that stores the time of every call.
TableAtCheckAlwaysStores(table, key, time) == StoreTime(table, key, time)

\* Lines 245-246: the table after the check, which stores a new key only.
TableAtCheck(table, key, time) ==
  IF key \notin DOMAIN table THEN StoreTime(table, key, time) ELSE table

\* Lines 240-252: the key, the clock, and the decision. A new key is stored
\* with the current time before the record is logged; a known key is logged
\* when the interval has passed, and dividing by a limit of zero raises
\* ZeroDivisionError.
rl_240(t) ==
  LET key == RateKey(args[t].logger, args[t].level)
      next == IF key \notin DOMAIN rate_limiters THEN "rl_247"
              ELSE IF args[t].limit = 0 THEN "rl_raise"
              ELSE IF IntervalElapsed(now - rate_limiters[key], args[t].limit)
                THEN "rl_253"
                ELSE "rl_exit"
  IN
  /\ pc[t] = "rl_240"
  /\ SetArgs(t, [args[t] EXCEPT !.ct = now, !.emit = next \in {"rl_247", "rl_253"}])
  /\ rate_limiters' = TableAtCheck(rate_limiters, key, now)
  /\ Goto(t, next)
  /\ UNCHANGED <<winVars, extVars, modVars, libVars, cfgVars, loggers, special_loggers, lockOwner,
                 lockCount, now, ret, histVars, rateHist>>

\* logger.log(level, message): the call hands the record to the logger.
LogCalled(t) ==
  lastEmit' = [k \in DOMAIN lastEmit \cup {RateKey(args[t].logger, args[t].level)} |->
                 IF k = RateKey(args[t].logger, args[t].level) THEN args[t].ct
                 ELSE lastEmit[k]]

\* Line 247: the first call for the key logs.
rl_247(t) ==
  /\ pc[t] = "rl_247"
  /\ LogCalled(t)
  /\ LogCall(t, args[t].logger, args[t].level, "rl_exit")
  /\ UNCHANGED <<winVars, modVars, libVars, mgrVars, args, ret, histVars, raised,
                 sinkLock, written, fileVars>>

\* Line 253: a later call logs.
rl_253(t) ==
  /\ pc[t] = "rl_253"
  /\ LogCalled(t)
  /\ LogCall(t, args[t].logger, args[t].level, "rl_254")
  /\ UNCHANGED <<winVars, modVars, libVars, mgrVars, args, ret, histVars, raised,
                 sinkLock, written, fileVars>>

\* A store that is skipped when the channel's level dropped the record.
rl_254_only_when_enabled(t) ==
  /\ pc[t] = "rl_254"
  /\ rate_limiters' =
       IF IsEnabledFor(args[t].logger, args[t].level)
         THEN StoreTime(rate_limiters, RateKey(args[t].logger, args[t].level),
                        args[t].ct)
         ELSE rate_limiters
  /\ Goto(t, "rl_exit")
  /\ UNCHANGED <<winVars, extVars, modVars, libVars, cfgVars, loggers, special_loggers, lockOwner,
                 lockCount, now, args, ret, histVars, rateHist>>

\* Line 254: and records its time.
rl_254(t) ==
  /\ pc[t] = "rl_254"
  /\ rate_limiters' = StoreTime(rate_limiters,
                                RateKey(args[t].logger, args[t].level), args[t].ct)
  /\ Goto(t, "rl_exit")
  /\ UNCHANGED <<winVars, extVars, modVars, libVars, cfgVars, loggers, special_loggers, lockOwner,
                 lockCount, now, args, ret, histVars, rateHist>>

\* The with block is left and the call returns.
rl_exit(t) ==
  /\ pc[t] = "rl_exit"
  /\ Release(t)
  /\ UNCHANGED raised
  /\ SetArgs(t, NoArgs)
  /\ Goto(t, "idle")
  /\ UNCHANGED <<winVars, extVars, modVars, libVars, cfgVars, loggers, special_loggers,
                 rate_limiters, now, ret, histVars, lastEmit>>

\* The with block is left by the exception, which reaches the caller.
rl_raise(t) ==
  /\ pc[t] = "rl_raise"
  /\ Release(t)
  /\ raised' = TRUE
  /\ SetArgs(t, NoArgs)
  /\ Goto(t, "idle")
  /\ UNCHANGED <<winVars, extVars, modVars, libVars, cfgVars, loggers, special_loggers,
                 rate_limiters, now, ret, histVars, lastEmit>>

RateNext ==
  \/ Tick
  \/ \E t \in Threads :
       \/ rate_limited_log_call(t)
       \/ rl_238(t)
       \/ rl_240(t)
       \/ rl_247(t)
       \/ rl_253(t)
       \/ rl_254(t)
       \/ rl_exit(t)
       \/ rl_raise(t)
       \/ em_acquire(t)
       \/ em_write(t)

InitRate == MgrFixed /\ WinFixed /\ SinkFixed

SpecRate == InitRate /\ [][RateNext]_vars

(***************************************************************************)
(* The flush_all sweep beside threads that register and toggle channels.   *)
(***************************************************************************)
FlushNext ==
  \E t \in Threads :
    \/ flush_all_call(t)
    \/ fa_281(t)
    \/ fa_283(t)
    \/ fa_flush(t)
    \/ get_logger_call(t)
    \/ gl_158(t)
    \/ gl_159(t)
    \/ gl_163(t)
    \/ gl_exit(t)
    \/ ts_220(t)
    \/ ts_225(t)
    \/ em_acquire(t)
    \/ em_write(t)

InitFlush == MgrFixed /\ WinFixed /\ SinkFixed

SpecFlush == InitFlush /\ [][FlushNext]_vars

(***************************************************************************)
(* Producers and an operator: threads that log on the sync channel, through *)
(* the handle and through rate_limited_log, while others toggle the        *)
(* channel and set every level.                                            *)
(***************************************************************************)
\* Inputs: the channels and levels of the direct log calls.
EmitLoggers == {"sync"}

EmitLevels == {INFO, CRITICAL}

\* logger.log(level, msg) on a handle get_logger or an accessor returned.
log_call(t) ==
  /\ pc[t] = "idle"
  /\ \E lg \in EmitLoggers, level \in EmitLevels :
       SetArgs(t, [op |-> "log", logger |-> lg, level |-> level])
  /\ Goto(t, "lg_check")
  /\ UNCHANGED <<winVars, extVars, modVars, libVars, mgrVars, ret, histVars, rateHist>>

\* Its level test and the start of the dispatch.
lg_check(t) ==
  /\ pc[t] = "lg_check"
  /\ SetArgs(t, NoArgs)
  /\ LogCall(t, args[t].logger, args[t].level, "idle")
  /\ UNCHANGED <<winVars, modVars, libVars, mgrVars, ret, histVars, rateHist,
                 sinkLock, written, fileVars>>

\* rate_limited_log on the sync channel at one message per second.
rate_limited_log_sync_call(t) ==
  /\ rate_limited_log_call(t)
  /\ args'[t].logger = "sync"
  /\ args'[t].limit = 1

\* set_level(level) without names.
set_level_all_call(t) ==
  /\ set_level_call(t)
  /\ args'[t].all

\* The threads that log, and the threads that change levels.
Producers == {"t1"}

Operators == {"t2"}

EmitNext ==
  \/ Tick
  \/ \E t \in Producers :
       \/ log_call(t)
       \/ lg_check(t)
       \/ rate_limited_log_sync_call(t)
       \/ rl_238(t)
       \/ rl_240(t)
       \/ rl_247(t)
       \/ rl_253(t)
       \/ rl_254(t)
       \/ rl_exit(t)
  \/ \E t \in Operators :
       \/ set_level_all_call(t)
       \/ sl_181(t)
       \/ sl_182(t)
       \/ sl_exit(t)
       \/ ts_220(t)
       \/ ts_225(t)
  \/ \E t \in Threads :
       \/ em_acquire(t)
       \/ em_write(t)

InitEmit == MgrInit /\ WinFixed /\ SinkFixed

SpecEmit == InitEmit /\ [][EmitNext]_vars

(***************************************************************************)
(* Every operation of the manager side by side, under a fair scheduler:    *)
(* a thread that can take a step again and again eventually takes it.      *)
(***************************************************************************)
\* The calls of this scenario: the producer logs CRITICAL records on sync,
\* the operator registers the module channel, sets every level to ERROR and
\* toggles sync off.
log_critical_call(t) ==
  /\ log_call(t)
  /\ args'[t].level = CRITICAL

rate_limited_log_critical_call(t) ==
  /\ rate_limited_log_sync_call(t)
  /\ args'[t].level = CRITICAL

get_logger_mod_call(t) ==
  /\ get_logger_call(t)
  /\ args'[t].name = "mod"

set_level_all_error_call(t) ==
  /\ set_level_all_call(t)
  /\ args'[t].level = ERROR

toggle_sync_off(t) ==
  /\ ts_220(t)
  /\ pc'[t] = "ts_225"
  /\ args'[t].category = "sync"
  /\ ~args'[t].enable

\* The steps of a producer thread.
ProducerNext(t) ==
  \/ log_critical_call(t)
  \/ lg_check(t)
  \/ rate_limited_log_critical_call(t)
  \/ rl_238(t)
  \/ rl_240(t)
  \/ rl_247(t)
  \/ rl_253(t)
  \/ rl_254(t)
  \/ rl_exit(t)
  \/ em_acquire(t)
  \/ em_write(t)

\* The steps of an operator thread.
OperatorNext(t) ==
  \/ get_logger_mod_call(t)
  \/ gl_158(t)
  \/ gl_159(t)
  \/ gl_163(t)
  \/ gl_exit(t)
  \/ set_level_all_error_call(t)
  \/ sl_181(t)
  \/ sl_182(t)
  \/ sl_exit(t)
  \/ toggle_sync_off(t)
  \/ ts_225(t)
  \/ flush_all_call(t)
  \/ fa_281(t)
  \/ fa_283(t)
  \/ fa_flush(t)
  \/ em_acquire(t)
  \/ em_write(t)

LiveNext ==
  \/ Tick
  \/ \E t \in Producers : ProducerNext(t)
  \/ \E t \in Operators : OperatorNext(t)

Fairness ==
  /\ \A t \in Producers : SF_vars(ProducerNext(t))
  /\ \A t \in Operators : SF_vars(OperatorNext(t))

InitLive == MgrFixed /\ WinFixed /\ SinkFixed

SpecLive == InitLive /\ [][LiveNext]_vars /\ Fairness

(***************************************************************************)
(* The rotating files: RotatingFileHandler(path, maxBytes, backupCount) as *)
(* lines 117-121 and 137-141 construct it, written by concurrent threads.  *)
(***************************************************************************)
\* Inputs: the sizes the manager is constructed with, the files written and
\* the lengths of the formatted records ("%s\n" % self.format(record)).
MaxFileSizeMb == 2

MaxBackupCount == 2

SinkFiles == {"main", "sync"}

RecordLens == {MaxBytesOf(1) \div 2, MaxBytesOf(1) + 1}

\* The longest file the model follows.
MaxFileBytes == MaxBytesOf(MaxFileSizeMb + 1)

\* The channel a file's handler is attached to.
ChannelOf(f) == IF f = "main" THEN "root" ELSE f

\* RotatingFileHandler.shouldRollover: maxBytes > 0 and
\* self.stream.tell() + len(msg) >= self.maxBytes.
shouldRollover(f, n) == maxBytes > 0 /\ fileSize[f] + n >= maxBytes

\* RotatingFileHandler.doRollover, the generations .1, .2, ...: with
\* backupCount > 0 generation i becomes i + 1 for i < backupCount (the one
\* at backupCount is removed) and the active file becomes generation 1.
BackupsAfterRollover(f) ==
  IF backupCount > 0
    THEN SubSeq(<<fileSize[f]>> \o backups[f], 1,
                Min(Len(backups[f]) + 1, backupCount))
    ELSE backups[f]

\* RotatingFileHandler.doRollover, the active file: renamed away and opened
\* anew when backupCount > 0, else closed and opened again in mode 'a' with
\* everything it held.
SizeAfterRollover(f) == IF backupCount > 0 THEN 0 ELSE fileSize[f]

\* A thread's log call puts a record of n characters before the handler of
\* file f (the record passed the channel's level test).
sink_log_call(t) ==
  /\ pc[t] = "idle"
  /\ \E f \in SinkFiles, n \in RecordLens :
       /\ \E i \in DOMAIN loggerHandlers[ChannelOf(f)] :
            loggerHandlers[ChannelOf(f)][i] = FileHandler(f)
       /\ fileSize[f] + n <= MaxFileBytes
       /\ SetArgs(t, [op |-> "emit", file |-> f, len |-> n])
  /\ Goto(t, "rf_acquire")
  /\ UNCHANGED <<winVars, modVars, libVars, mgrVars, ret, histVars, rateHist,
                 extVars>>

\* Handler.handle: self.acquire().
rf_acquire(t) ==
  /\ pc[t] = "rf_acquire"
  /\ sinkLock[FileHandler(args[t].file)] = None
  /\ sinkLock' = [sinkLock EXCEPT ![FileHandler(args[t].file)] = t]
  /\ Goto(t, "rf_emit")
  /\ UNCHANGED <<winVars, modVars, libVars, mgrVars, args, ret, histVars,
                 rateHist, written, frame, fileVars>>

\* BaseRotatingHandler.emit: if self.shouldRollover(record):
\* self.doRollover(); then FileHandler.emit writes the record; then
\* Handler.handle releases the lock and the log call returns.
rf_emit(t) ==
  LET f == args[t].file
      n == args[t].len IN
  /\ pc[t] = "rf_emit"
  /\ IF shouldRollover(f, n)
       THEN /\ backups' = [backups EXCEPT ![f] = BackupsAfterRollover(f)]
            /\ fileSize' = [fileSize EXCEPT ![f] = SizeAfterRollover(f) + n]
       ELSE /\ backups' = backups
            /\ fileSize' = [fileSize EXCEPT ![f] = fileSize[f] + n]
  /\ sinkLock' = [sinkLock EXCEPT ![FileHandler(f)] = None]
  /\ SetArgs(t, NoArgs)
  /\ Goto(t, "idle")
  /\ UNCHANGED <<winVars, modVars, libVars, mgrVars, ret, histVars, rateHist,
                 written, frame, maxBytes, backupCount>>

SinkNext ==
  \E t \in Threads :
    \/ sink_log_call(t)
    \/ rf_acquire(t)
    \/ rf_emit(t)

\* A manager with file output, constructed with some max_file_size_mb and
\* backup_count in an empty log directory.
SinkInit ==
  /\ \E mb \in 1..MaxFileSizeMb : maxBytes = MaxBytesOf(mb)
  /\ backupCount \in 0..MaxBackupCount
  /\ fileSize = [f \in LogFiles |-> 0]
  /\ backups = [f \in LogFiles |-> << >>]

InitSink == MgrFixed /\ WinFixed /\ SinkInit

SpecSink == InitSink /\ [][SinkNext]_vars

(***************************************************************************)
(* The module-level singleton: initialize_logging, get_logger and          *)
(* get_logging_manager, called by threads of a fresh process. Managers are *)
(* numbered in the order of their construction; 0 stands for None.         *)
(***************************************************************************)
\* The arguments initialize_logging() has when called without any.
DefaultConfig == <<INFO, TRUE, TRUE>>

\* No manager was constructed through this module's own variables.
MgrAbsent ==
  /\ default_level = INFO
  /\ enable_console = TRUE
  /\ enable_file = TRUE
  /\ loggers = [k \in {} |-> 0]
  /\ special_loggers = [c \in Specials |-> None]
  /\ lockOwner = None
  /\ lockCount = 0
  /\ rate_limiters = [k \in {} |-> 0]
  /\ now = 0
  /\ created = [n \in Names |-> 0]
  /\ returned = [n \in Names |-> {}]
  /\ rootLog = << >>
  /\ lastEmit = [k \in {} |-> 0]
  /\ raised = FALSE
  /\ IoInit

\* A fresh process: no manager, and the library as the interpreter starts it.
ModuleInit ==
  /\ _logging_manager = 0
  /\ managers = << >>
  /\ results = {}
  /\ loggerDict = {"root"}
  /\ loggerLevel = FreshLevel
  /\ loggerPropagate = [n \in Names |-> TRUE]
  /\ loggerHandlers = FreshHandlers
  /\ pc = [t \in Threads |-> "idle"]
  /\ args = [t \in Threads |-> NoArgs]
  /\ ret = [t \in Threads |-> None]

modUnchanged == <<winVars, extVars, cfgVars, loggers, special_loggers, lockOwner, lockCount,
                  rate_limiters, now, histVars, rateHist>>

initialize_logging_call(t) ==
  /\ pc[t] = "idle"
  /\ \E cfg \in Configs :
       SetArgs(t, [op |-> "initialize_logging", cfg |-> cfg, from |-> "top",
                   new |-> 0, res |-> 0])
  /\ Goto(t, "il_303")
  /\ UNCHANGED <<modUnchanged, libVars, modVars, ret>>

module_get_logger_call(t) ==
  /\ pc[t] = "idle"
  /\ \E n \in GetNames :
       SetArgs(t, [op |-> "get_logger", name |-> n, cfg |-> DefaultConfig,
                   from |-> "mg", new |-> 0, res |-> 0])
  /\ Goto(t, "mg_323")
  /\ UNCHANGED <<modUnchanged, libVars, modVars, ret>>

get_logging_manager_call(t) ==
  /\ pc[t] = "idle"
  /\ SetArgs(t, [op |-> "get_logging_manager", cfg |-> DefaultConfig,
                 from |-> "gm", new |-> 0, res |-> 0])
  /\ Goto(t, "gm_330")
  /\ UNCHANGED <<modUnchanged, libVars, modVars, ret>>

\* "if _logging_manager is None" (lines 303, 323, 330).
ManagerUnset(m) == m = 0

\* Line 303.
il_303(t) ==
  /\ pc[t] = "il_303"
  /\ Goto(t, IF ManagerUnset(_logging_manager) THEN "il_304" ELSE "il_310")
  /\ UNCHANGED <<modUnchanged, libVars, modVars, args, ret>>

\* Line 304, LoggingManager.__init__ up to line 90: the fields are set (the
\* registry holds nothing yet) and _configure_root_logger replaces the root
\* logger's handlers, sets its level and registers it.
il_304(t) ==
  LET cfg == args[t].cfg IN
  /\ pc[t] = "il_304"
  /\ managers' = Append(managers,
                   [default_level |-> cfg[1], enable_console |-> cfg[2],
                    enable_file |-> cfg[3],
                    loggers |-> [n \in {"root"} |-> "root"],
                    special_loggers |-> [c \in Specials |-> None]])
  /\ loggerLevel' = LevelAfterConfigureRoot(loggerLevel, cfg[1])
  /\ loggerHandlers' = HandlersAfterConfigureRoot(loggerHandlers, cfg[2], cfg[3])
  /\ SetArgs(t, [args[t] EXCEPT !.new = Len(managers) + 1])
  /\ Goto(t, "il_304_93")
  /\ UNCHANGED <<modUnchanged, loggerDict, loggerPropagate, _logging_manager,
                 results, ret>>

\* Line 93, _initialize_special_loggers: get_logger(category) makes or finds
\* each category's Logger and registers it; with files enabled one more
\* RotatingFileHandler is attached to it.
il_304_93(t) ==
  LET m == args[t].new IN
  /\ pc[t] = "il_304_93"
  /\ loggerDict' = loggerDict \cup Specials
  /\ loggerPropagate' = PropagateAfterSpecials(loggerPropagate)
  /\ loggerHandlers' = HandlersAfterSpecials(loggerHandlers, managers[m].enable_file)
  /\ managers' = [managers EXCEPT
                    ![m].loggers = [n \in {"root"} \cup Specials |-> n],
                    ![m].special_loggers = [c \in Specials |-> c]]
  /\ Goto(t, "il_304_store")
  /\ UNCHANGED <<modUnchanged, loggerLevel, _logging_manager, results, args, ret>>

\* Line 304: the new manager is stored in the global.
il_304_store(t) ==
  /\ pc[t] = "il_304_store"
  /\ _logging_manager' = args[t].new
  /\ Goto(t, "il_310")
  /\ UNCHANGED <<modUnchanged, libVars, managers, results, args, ret>>

\* Line 310: return _logging_manager, to the caller or to the module function
\* that called initialize_logging().
il_310(t) ==
  /\ pc[t] = "il_310"
  /\ IF args[t].from = "top"
       THEN /\ results' = results \cup {_logging_manager}
            /\ SetArgs(t, NoArgs)
            /\ Goto(t, "idle")
       ELSE /\ SetArgs(t, [args[t] EXCEPT !.res = _logging_manager])
            /\ Goto(t, IF args[t].from = "mg" THEN "mg_324" ELSE "gm_331")
            /\ UNCHANGED results
  /\ UNCHANGED <<modUnchanged, libVars, _logging_manager, managers, ret>>

\* Line 323.
mg_323(t) ==
  /\ pc[t] = "mg_323"
  /\ Goto(t, IF ManagerUnset(_logging_manager) THEN "il_303" ELSE "mg_325")
  /\ UNCHANGED <<modUnchanged, libVars, modVars, args, ret>>

\* Line 324: _logging_manager = initialize_logging().
mg_324(t) ==
  /\ pc[t] = "mg_324"
  /\ _logging_manager' = args[t].res
  /\ Goto(t, "mg_325")
  /\ UNCHANGED <<modUnchanged, libVars, managers, results, args, ret>>

\* Line 325: _logging_manager.get_logger(name), on the manager the global
\* holds: a name that manager has not registered is looked up in the library,
\* made there if absent, and stored in the manager's registry.
mg_325(t) ==
  LET m == _logging_manager
      name == args[t].name IN
  /\ pc[t] = "mg_325"
  /\ results' = results \cup {m}
  /\ IF name \in DOMAIN managers[m].loggers
       THEN UNCHANGED <<libVars, managers>>
       ELSE /\ loggerDict' = loggerDict \cup {name}
            /\ loggerPropagate' =
                 PropagateAfterGet(loggerPropagate, name,
                                   DOMAIN managers[m].special_loggers)
            /\ managers' = [managers EXCEPT
                              ![m].loggers = RegistryWith(managers[m].loggers, name)]
            /\ UNCHANGED <<loggerLevel, loggerHandlers>>
  /\ SetArgs(t, NoArgs)
  /\ Goto(t, "idle")
  /\ UNCHANGED <<modUnchanged, _logging_manager, ret>>

\* Line 330.
gm_330(t) ==
  /\ pc[t] = "gm_330"
  /\ Goto(t, IF ManagerUnset(_logging_manager) THEN "il_303" ELSE "gm_332")
  /\ UNCHANGED <<modUnchanged, libVars, modVars, args, ret>>

\* Line 331: _logging_manager = initialize_logging().
gm_331(t) ==
  /\ pc[t] = "gm_331"
  /\ _logging_manager' = args[t].res
  /\ Goto(t, "gm_332")
  /\ UNCHANGED <<modUnchanged, libVars, managers, results, args, ret>>

\* Line 332: return _logging_manager.
gm_332(t) ==
  /\ pc[t] = "gm_332"
  /\ results' = results \cup {_logging_manager}
  /\ SetArgs(t, NoArgs)
  /\ Goto(t, "idle")
  /\ UNCHANGED <<modUnchanged, libVars, _logging_manager, managers, ret>>

InitNext ==
  \E t \in Threads :
    \/ initialize_logging_call(t)
    \/ module_get_logger_call(t)
    \/ get_logging_manager_call(t)
    \/ il_303(t)
    \/ il_304(t)
    \/ il_304_93(t)
    \/ il_304_store(t)
    \/ il_310(t)
    \/ mg_323(t)
    \/ mg_324(t)
    \/ mg_325(t)
    \/ gm_330(t)
    \/ gm_331(t)
    \/ gm_332(t)

InitModule == ModuleInit /\ MgrAbsent /\ WinFixed /\ SinkFixed

SpecInit == InitModule /\ [][InitNext]_vars

(***************************************************************************)
(* Properties of the LogWindow, stated for SpecWin.                        *)
(***************************************************************************)
\* The number of lines the canvas fits: height divided by the line height.
FitLines == window_h \div line_height

\* C5: the overlay buffer is a bounded FIFO. In every reachable state it holds
\* at most max_lines records, and once more than max_lines records have been
\* appended (since the deque was last empty) it holds exactly max_lines
\* records: the most recent max_lines appended, in the order of insertion.
C5_BoundedFifo ==
  /\ Len(log_lines) <= max_lines
  /\ Len(inserted) > max_lines =>
       /\ Len(log_lines) = max_lines
       /\ log_lines = LastN(inserted, max_lines)
  /\ Len(inserted) <= max_lines => log_lines = inserted

\* C5 witness: add_log calls made after construction pushed the number of
\* appended records at least two past a capacity of two or more.
C5_Witness ==
  /\ max_lines >= 2
  /\ nCalls >= 2
  /\ wpc = "idle"
  /\ Len(inserted) >= max_lines + 2
  /\ log_lines[Len(log_lines)][2] = "sync"

\* C6: a render pass over an unchanging buffer that holds more records than
\* the canvas fits (M > V) draws exactly the V most recent records, oldest
\* first, so the most recently added record is among those drawn.
C6_RenderDrawsTail ==
  (rpc = "shown" /\ passClean /\ Len(log_lines) > FitLines) =>
     drawn = LastN(log_lines, FitLines)

\* Whether d is a contiguous run of b: some SubSeq of b, the empty one included.
IsRunOf(d, b) ==
  \E i \in 0..Len(b) :
    /\ i + Len(d) <= Len(b)
    /\ d = SubSeq(b, i + 1, i + Len(d))

\* C13: with add_log and clear running beside the render thread, no pass reads
\* an index that no longer exists, and the records a pass has drawn when it
\* presents the canvas are a contiguous run of the contents the buffer had at
\* one single instant of the pass.
C13_ConsistentSnapshot ==
  [][/\ ~(rpc = "r406" /\ rpc' = "idle")
     /\ (rpc = "r423" /\ rpc' = "shown") => \E b \in passBufs : IsRunOf(drawn, b)
  ]_vars

\* C17: when clear() returns and no producer appended between its two lines,
\* a buffer of capacity one or more holds exactly one record, of category
\* 'system' and message 'Log cleared', whatever it held before.
C17_ClearLeavesOneRecord ==
  [][(wpc = "c434" /\ wpc' = "idle" /\ inserted = << >> /\ max_lines >= 1) =>
       /\ Len(log_lines') = 1
       /\ log_lines'[1][2] = "system"
       /\ log_lines'[1][3] = "Log cleared"
  ]_vars

\* C17 witness: clear() has returned on a buffer of capacity two or more,
\* which held the welcome records, and the buffer holds the one record.
C17_Witness ==
  /\ wpc = "idle"
  /\ max_lines >= 2
  /\ nCalls >= 1
  /\ Len(log_lines) = 1
  /\ log_lines[1][2] = "system" /\ log_lines[1][3] = "Log cleared"
  /\ inserted = log_lines

(***************************************************************************)
(* Properties of the channel registry and the levels, stated for Spec.     *)
(***************************************************************************)
\* C1: however the threads' get_logger calls for a name interleave, at most
\* one registry entry is ever stored for the name, every call for the name
\* returns one and the same handle, and that handle stays the registry's
\* entry for the name from then on.
C1_OneCreation ==
  \A n \in Names :
    /\ created[n] <= 1
    /\ Cardinality(returned[n]) <= 1
    /\ (n \in DOMAIN loggers) <=> (created[n] = 1)
    /\ returned[n] # {} => (n \in DOMAIN loggers /\ returned[n] = {loggers[n]})

\* C1 witness: one thread has just created the entry for a new name and still
\* holds the lock while the other thread, asking for the same name, waits.
C1_Witness ==
  \E t, u \in Threads :
    /\ t # u
    /\ pc[t] = "gl_exit" /\ args[t].name = "mod"
    /\ returned["mod"] = {} /\ created["mod"] = 1
    /\ pc[u] = "gl_158" /\ args[u].name = "mod"

\* The toggle of a special category that thread t is making in this step.
TogglesIn(t, category, enable) ==
  /\ pc[t] = "idle" /\ pc'[t] = "ts_225"
  /\ args'[t].category = category /\ args'[t].enable = enable

\* C7 (as amended): toggle_special_logger('sync', False) leaves the sync
\* channel's effective level at CRITICAL and toggle_special_logger('sync',
\* True) leaves it at DEBUG, whatever the levels were; the INFO record
\* describing the toggle is accepted by the root channel if and only if the
\* root's level at that moment is INFO or lower.
C7_ToggleLevelsAndRecord ==
  [][\A t \in Threads :
       /\ TogglesIn(t, "sync", FALSE) =>
            EffectiveLevelIn(loggerLevel', "sync") = CRITICAL
       /\ TogglesIn(t, "sync", TRUE) =>
            EffectiveLevelIn(loggerLevel', "sync") = DEBUG
       /\ (pc[t] = "ts_225" /\ pc'[t] # "ts_225") =>
            rootLog' = IF loggerLevel["root"] <= INFO
                         THEN Append(rootLog, [level |-> INFO,
                                msg |-> <<IF args[t].enable THEN "Enabled" ELSE "Disabled",
                                          args[t].category, "logging">>])
                         ELSE rootLog
  ]_vars

\* C7 witness: sync was disabled and then enabled, both records are on the
\* root channel, and sync is at DEBUG.
C7_Witness ==
  /\ rootLog = <<ToggleRecord("sync", FALSE), ToggleRecord("sync", TRUE)>>
  /\ EffectiveLevel("sync") = DEBUG
  /\ \A t \in Threads : pc[t] = "idle"

\* C7 as stated: in any reachable state each toggle of sync sets the level
\* and puts one INFO record describing it on the root channel.
C7_RecordAlwaysOnRoot ==
  [][\A t \in Threads :
       /\ TogglesIn(t, "sync", FALSE) =>
            EffectiveLevelIn(loggerLevel', "sync") = CRITICAL
       /\ TogglesIn(t, "sync", TRUE) =>
            EffectiveLevelIn(loggerLevel', "sync") = DEBUG
       /\ (pc[t] = "ts_225" /\ pc'[t] # "ts_225") =>
            rootLog' = Append(rootLog, ToggleRecord(args[t].category, args[t].enable))
  ]_vars

\* The body of set_level that thread t runs in this step.
SetLevelBodyBy(t) == pc[t] = "sl_182" /\ pc'[t] # "sl_182"

\* C8: set_level(level, names) with no registered name among names ends
\* normally, changes no level and adds no entry to the registry (nor a Logger
\* object to the library).
C8_UnknownNamesIgnored ==
  [][\A t \in Threads :
       (SetLevelBodyBy(t) /\ ~args[t].all /\ args[t].names \cap DOMAIN loggers = {}) =>
          /\ pc'[t] = "sl_exit"
          /\ loggerLevel' = loggerLevel
          /\ loggers' = loggers
          /\ loggerDict' = loggerDict
  ]_vars

\* C8 witness: set_level with only unregistered names has run its body while
\* levels differ between channels.
C8_Witness ==
  \E t \in Threads :
    /\ pc[t] = "sl_exit"
    /\ ~args[t].all
    /\ args[t].names \cap DOMAIN loggers = {}
    /\ loggerLevel["sync"] = CRITICAL
    /\ "mod" \in DOMAIN loggers

\* C9: set_level(level) without names leaves every registered channel at
\* level, whatever a toggle set before; set_level(level, names) sets the
\* registered channels that are listed and changes no other level.
C9_SetLevelScope ==
  [][\A t \in Threads :
       SetLevelBodyBy(t) =>
         /\ args[t].all =>
              \A n \in DOMAIN loggers : loggerLevel'[loggers[n]] = args[t].level
         /\ ~args[t].all =>
              \A n \in DOMAIN loggers :
                loggerLevel'[loggers[n]] =
                  IF n \in args[t].names THEN args[t].level ELSE loggerLevel[loggers[n]]
         /\ \A o \in Names \ {loggers[n] : n \in DOMAIN loggers} :
              loggerLevel'[o] = loggerLevel[o]
  ]_vars

\* C9 witness: set_level without names has put every registered channel,
\* the lazily created one and the toggled one included, at ERROR.
C9_Witness ==
  \E t \in Threads :
    /\ pc[t] = "sl_exit"
    /\ args[t].all /\ args[t].level = ERROR
    /\ "mod" \in DOMAIN loggers
    /\ rootLog # << >>
    /\ \A n \in DOMAIN loggers : loggerLevel[loggers[n]] = ERROR

\* C14 (as amended): in every state after construction the five special
\* channels are registered, the accessors' table holds each of them (never
\* None), each is non-propagating, and each has exactly one sink, the
\* rotating file of its own name, when the manager was constructed with file
\* output enabled, and no sink at all when it was constructed without.
C14_SpecialChannels ==
  \A c \in Specials :
    /\ c \in DOMAIN loggers
    /\ special_loggers[c] # None
    /\ special_loggers[c] = loggers[c]
    /\ ~loggerPropagate[loggers[c]]
    /\ loggerHandlers[loggers[c]] =
         IF enable_file THEN <<FileHandler(c)>> ELSE << >>

\* C14 witness: a manager constructed without file output, after set_level
\* went over every channel and a module channel was registered.
C14_Witness ==
  \E t \in Threads :
    /\ ~enable_file
    /\ pc[t] = "sl_exit" /\ args[t].all
    /\ "mod" \in DOMAIN loggers

\* C14 as stated: with any configuration each special channel is registered,
\* non-propagating, returned by its accessor and bound to its own
\* rotating-file sink.
C14_OwnFileSinkAlways ==
  \A c \in Specials :
    /\ c \in DOMAIN loggers
    /\ special_loggers[c] # None
    /\ special_loggers[c] = loggers[c]
    /\ ~loggerPropagate[loggers[c]]
    /\ loggerHandlers[loggers[c]] = <<FileHandler(c)>>

\* The creation of a registry entry by thread t in this step (lines 163-171).
CreatesIn(t) == pc[t] = "gl_163" /\ pc'[t] # "gl_163"

Sweeping(t) == pc[t] \in {"fa_281", "fa_283", "fa_flush"}

\* C11: the manager lock serializes the registry, the level changes and the
\* sweep: a thread that is inside flush_all's sweep or inside
\* toggle_special_logger holds the manager lock; no step changes the registry
\* while a sweep is under way; and a sweep ends only by returning, after
\* every sink of every channel registered when it began was flushed.
C11_GuardSerializes ==
  [][/\ \A t \in Threads : (Sweeping(t) \/ pc[t] = "ts_225") => lockOwner = t
     /\ (\E t \in Threads : Sweeping(t)) => loggers' = loggers
     /\ \A t \in Threads :
          (Sweeping(t) /\ pc'[t] = "idle") =>
            /\ raised' = raised
            /\ \A n \in args[t].start :
                 \A k \in 1..Len(loggerHandlers[loggers[n]]) :
                   loggerHandlers[loggers[n]][k] \in args[t].seen
  ]_vars

(***************************************************************************)
(* Properties of the rate limiter, stated for SpecRate.                    *)
(***************************************************************************)
\* The key of the call thread t is in.
KeyOf(t) == RateKey(args[t].logger, args[t].level)

\* C3: with a positive limit L, the first call for a key logs; a later call
\* at time now logs if and only if now - lastAccepted >= 1/L, lastAccepted
\* being the time of the call for the key that logged last; so two calls that
\* log one after the other for a key are at least 1/L apart.
C3_RateLimit ==
  [][\A t \in Threads :
       /\ (pc[t] = "rl_240" /\ pc'[t] # "rl_240" /\ KeyOf(t) \notin DOMAIN lastEmit) =>
            pc'[t] = "rl_247"
       /\ (pc[t] = "rl_240" /\ pc'[t] # "rl_240" /\ KeyOf(t) \in DOMAIN lastEmit
             /\ args[t].limit > 0) =>
            /\ pc'[t] \in {"rl_253", "rl_exit"}
            /\ pc'[t] = "rl_253" <=>
                 (now - lastEmit[KeyOf(t)]) * args[t].limit >= TicksPerSecond
       /\ (pc[t] \in {"rl_247", "rl_253"} /\ pc'[t] # pc[t]) =>
            /\ KeyOf(t) \in DOMAIN lastEmit' /\ lastEmit'[KeyOf(t)] = args[t].ct
            /\ (KeyOf(t) \in DOMAIN lastEmit /\ args[t].limit > 0) =>
                 (args[t].ct - lastEmit[KeyOf(t)]) * args[t].limit >= TicksPerSecond
  ]_vars

\* C3 witness: at one message per second, a call a full second after the
\* last accepted one for its key has logged.
C3_Witness ==
  \E t \in Threads :
    /\ pc[t] = "rl_254"
    /\ args[t].limit = 1
    /\ args[t].ct - rate_limiters[KeyOf(t)] >= TicksPerSecond

\* C4: a suppressed call leaves the whole table as it was; a step that
\* changes the table is the store of an accepted call and changes only that
\* call's key, to the call's time; no entry is ever removed.
C4_TableFrame ==
  [][/\ DOMAIN rate_limiters \subseteq DOMAIN rate_limiters'
     /\ \A t \in Threads :
          (pc[t] = "rl_240" /\ pc'[t] = "rl_exit") => rate_limiters' = rate_limiters
     /\ \A k \in DOMAIN rate_limiters' :
          (k \notin DOMAIN rate_limiters \/ rate_limiters'[k] # rate_limiters[k]) =>
             \E t \in Threads :
               /\ pc[t] \in {"rl_240", "rl_254"}
               /\ pc'[t] \in {"rl_247", "rl_exit"}
               /\ args'[t].emit
               /\ k = KeyOf(t)
               /\ rate_limiters'[k] = args'[t].ct
  ]_vars

\* C4 witness: a call was suppressed while the table holds two keys with
\* different times.
C4_Witness ==
  \E t \in Threads :
    /\ pc[t] = "rl_exit" /\ ~args[t].emit
    /\ \E k \in DOMAIN rate_limiters :
         k # KeyOf(t) /\ rate_limiters[k] # rate_limiters[KeyOf(t)]

\* C10: every rate_limited_log call, for any channel, level and limit, at any
\* place in a sequence of calls, returns normally, and the manager lock is
\* free once no call is under way.
C10_NeverRaises ==
  /\ ~raised
  /\ (\A t \in Threads : pc[t] = "idle") => lockOwner = None

\* C12: in every reachable state no thread is handing a record to a sink
\* (waiting for the sink's lock or writing) while it holds the manager lock.
C12_NoSinkIOUnderLock ==
  \A t \in Threads : pc[t] \in {"em_acquire", "em_write"} => lockOwner # t

(***************************************************************************)
(* Properties of emission and the levels, stated for SpecEmit.             *)
(***************************************************************************)
\* Thread t's Logger.log call of this step, on the channel args[t].logger at
\* the level args[t].level: directly, or at line 247 or 253.
LogTestIn(t) == pc[t] \in {"lg_check", "rl_247", "rl_253"} /\ pc'[t] # pc[t]

\* C18: a record logged on a special channel, directly or through
\* rate_limited_log, is handed to sinks only if its level is at least the
\* channel's effective level at the log call; it then goes to the channel's
\* own sinks (to the library's stderr handler of last resort when the channel
\* has none and the record is a WARNING or above); nothing else is ever
\* written to a sink; and a special channel's level changes only by
\* toggle_special_logger for it or by set_level. So while a special channel
\* stays toggled off (at CRITICAL) no record below CRITICAL logged on it is
\* written, and a CRITICAL record is.
C18_LevelFilter ==
  [][/\ \A t \in Threads :
          LogTestIn(t) =>
            LET c == args[t].logger
                l == args[t].level IN
            /\ (pc'[t] = "em_acquire") <=>
                 /\ l >= EffectiveLevel(c)
                 /\ loggerHandlers[c] # << >> \/ l >= WARNING
            /\ pc'[t] = "em_acquire" =>
                 /\ frame'[t].logger = c /\ frame'[t].level = l
                 /\ frame'[t].todo = IF loggerHandlers[c] # << >>
                                       THEN loggerHandlers[c]
                                       ELSE <<LastResort>>
            /\ (c \in Specials /\ loggerLevel[c] = CRITICAL) =>
                 ((pc'[t] = "em_acquire") <=> (l = CRITICAL))
            /\ pc'[t] # "em_acquire" => written' = written
     /\ \A r \in written' \ written :
          \E t \in Threads :
            /\ pc[t] = "em_write"
            /\ r = <<Head(frame[t].todo), frame[t].logger, frame[t].level>>
     /\ \A c \in Specials :
          loggerLevel'[c] # loggerLevel[c] =>
            \E t \in Threads :
              \/ pc[t] = "idle" /\ pc'[t] = "ts_225" /\ args'[t].category = c
              \/ pc[t] = "sl_182" /\ pc'[t] = "sl_exit"
  ]_vars

\* C18 witness: sync is toggled off; an INFO record logged on it through
\* rate_limited_log was written nowhere, and a CRITICAL record is being
\* written to the channel's file.
C18_Witness ==
  \E t \in Threads :
    /\ loggerLevel["sync"] = CRITICAL
    /\ rootLog = <<ToggleRecord("sync", FALSE)>>
    /\ RateKey("sync", INFO) \in DOMAIN lastEmit
    /\ \A h \in Sinks : <<h, "sync", INFO>> \notin written
    /\ pc[t] = "em_write"
    /\ frame[t].logger = "sync" /\ frame[t].level = CRITICAL
    /\ Head(frame[t].todo) = FileHandler("sync")

\* Whether the level of the channel drops the record of t's call.
Filtered(t) == ~IsEnabledFor(args[t].logger, args[t].level)

\* C20: rate_limited_log accepts or suppresses by the key's timestamp alone:
\* the first call for a key stores now, a later call goes on to log exactly
\* when the interval has passed, and the accepted call's time is stored also
\* when the channel's level drops the record and nothing is written.
C20_SlotConsumedWhenFiltered ==
  [][\A t \in Threads :
       /\ (pc[t] = "rl_240" /\ pc'[t] # "rl_240") =>
            /\ KeyOf(t) \notin DOMAIN rate_limiters =>
                 /\ pc'[t] = "rl_247"
                 /\ rate_limiters'[KeyOf(t)] = now
            /\ (KeyOf(t) \in DOMAIN rate_limiters /\ args[t].limit > 0) =>
                 /\ pc'[t] \in {"rl_253", "rl_exit"}
                 /\ pc'[t] = "rl_253" <=>
                      (now - rate_limiters[KeyOf(t)]) * args[t].limit >= TicksPerSecond
                 /\ rate_limiters' = rate_limiters
       /\ (pc[t] = "rl_247" /\ pc'[t] # "rl_247" /\ Filtered(t)) =>
            /\ pc'[t] = "rl_exit"
            /\ written' = written
            /\ rate_limiters' = rate_limiters
       /\ (pc[t] = "rl_253" /\ pc'[t] # "rl_253" /\ Filtered(t)) =>
            /\ pc'[t] = "rl_254"
            /\ written' = written
       /\ (pc[t] = "em_write" /\ pc'[t] \notin {"em_write", "em_acquire"}) =>
            pc'[t] = frame[t].after
       /\ (pc[t] = "rl_254" /\ pc'[t] # "rl_254") =>
            rate_limiters'[KeyOf(t)] = args[t].ct
  ]_vars

\* C20 witness: a call on sync at INFO is suppressed although no INFO record
\* of sync was ever written: the slot was taken by a call whose record the
\* toggled-off channel dropped.
C20_Witness ==
  \E t \in Threads :
    /\ pc[t] = "rl_exit" /\ ~args[t].emit
    /\ args[t].logger = "sync" /\ args[t].level = INFO
    /\ loggerLevel["sync"] = CRITICAL
    /\ KeyOf(t) \in DOMAIN rate_limiters
    /\ \A h \in Sinks : <<h, "sync", INFO>> \notin written

(***************************************************************************)
(* Properties of the locks, stated for SpecLive.                           *)
(***************************************************************************)
\* C19: no thread takes the manager lock while it holds a sink's lock (so
\* the order is always manager lock, then sink lock), a thread that waits
\* for a lock holds no more than the manager lock, and under a fair
\* scheduler every call that was begun comes to its end.
C19_EveryCallEnds ==
  /\ [][\A t \in Threads :
          (lockOwner' = t /\ lockCount' > lockCount) =>
             \A h \in Sinks : sinkLock[h] # t]_vars
  /\ \A t \in Threads : (pc[t] # "idle") ~> (pc[t] = "idle")

\* C19 witness: the producer, inside rate_limited_log with the manager lock,
\* waits for the lock of the sync file, which the operator's flush_all holds.
C19_Witness ==
  \E t, u \in Threads :
    /\ t # u
    /\ lockOwner = t
    /\ pc[t] = "em_acquire"
    /\ Head(frame[t].todo) = FileHandler("sync")
    /\ pc[u] = "fa_flush"
    /\ sinkLock[FileHandler("sync")] = u

(***************************************************************************)
(* Properties of the rotating files, stated for SpecSink.                  *)
(***************************************************************************)
RECURSIVE SumSeq(_)
SumSeq(q) == IF q = << >> THEN 0 ELSE Head(q) + SumSeq(Tail(q))

\* C16: for every rotating file, whatever records were written to it, the
\* active file holds at most maxBytes bytes after every write, there are at
\* most backupCount backup files, and the family of files holds at most
\* maxBytes * (backupCount + 1) bytes.
C16_RotationBounds ==
  \A f \in LogFiles :
    /\ fileSize[f] <= maxBytes
    /\ Len(backups[f]) <= backupCount
    /\ fileSize[f] + SumSeq(backups[f]) <= maxBytes * (backupCount + 1)

(***************************************************************************)
(* Properties of the module-level singleton, stated for SpecInit.          *)
(***************************************************************************)
\* C2: however calls of initialize_logging, get_logger and
\* get_logging_manager interleave, at most one LoggingManager is ever
\* constructed, every call returns or uses that one manager, and no special
\* channel gets a second file sink.
C2_Singleton ==
  /\ Len(managers) <= 1
  /\ Cardinality(results) <= 1
  /\ \A c \in Specials : Len(loggerHandlers[c]) <= 1

====
